---- MODULE Spec2Model ----
(***************************************************************************)
(* ZaberStage (src/zaber_stage.py): the stage controller's cached status,  *)
(* its motion commands, its connection life cycle and its background       *)
(* position-reading thread, together with the device they talk to.         *)
(*                                                                         *)
(* Lengths are whole millimetres and velocities whole mm/s: the code       *)
(* compares, clamps and copies these numbers and never does arithmetic on  *)
(* them, so integers keep every case of the float code (below, at, inside  *)
(* and above a limit).                                                     *)
(***************************************************************************)
EXTENDS Integers, Sequences, FiniteSets, TLC

\* ------------------------------------------------------------------ bounds
\* the lower position limit: the default of __init__, 0.0 mm
MinPos == 0
\* the upper position limit and the velocity limit given to __init__, scaled
\* down from the defaults 100.0 mm and 10.0 mm/s
MaxPos == 2
MaxVel == 1
\* the device's own travel is [-1, DevHi], wider than the software limits
DevHi == 3
\* how many transport connections connect() may open in one behaviour
MaxOpens == 2

\* the defaults of load_config (zaber_stage.py:450-455) and the ceiling of the
\* reading rate in __init__ (zaber_stage.py:102)
DefaultLimits == <<0, 100>>
DefaultMaxVelocity == 10
DefaultRate == 100
MaxRate == 100

\* candidate endpoints, in scan order (zaber_stage.py:379-380, shortened)
PortList == <<"ttyUSB0", "ttyUSB1">>
Ports == {PortList[i] : i \in 1..Len(PortList)}

Positions == (0 - 1)..DevHi
Targets == (MinPos - 1)..(MaxPos + 1)
Velocities == (0 - (MaxVel + 1))..(MaxVel + 1)

VARIABLES
    \* configuration (StageConfig)
    port, min_pos, max_pos, max_velocity, reading_interval, device_info,
    config_file,
    \* handles: 0 is None, n > 0 is the n-th transport connection opened
    connection, device, axis, open_conns,
    \* cached status
    connected, current_position, current_velocity, is_moving, is_homed,
    \* the status lock: "free", or held by the "caller" or by the "reader"
    lock,
    \* the reading thread: its stop event, its position in the loop, its locals
    stop_reading, rt_pc, rt_ok, rt_position, rt_is_moving,
    \* the foreground caller: idle, or inside disconnect() waiting in join
    fg_pc,
    \* the device behind the transport
    devPos, devMode, devGoal, devHomed,
    \* the last completed API call: what was asked, returned and sent
    last

cfgvars == <<port, min_pos, max_pos, max_velocity, reading_interval,
             device_info, config_file>>
hvars == <<connection, device, axis, open_conns>>
stvars == <<connected, current_position, current_velocity, is_moving, is_homed>>
rtvars == <<lock, stop_reading, rt_pc, rt_ok, rt_position, rt_is_moving>>
devvars == <<devPos, devMode, devGoal, devHomed>>
vars == <<cfgvars, hvars, stvars, rtvars, fg_pc, devvars, last>>

\* ---------------------------------------------------------------- helpers
Min(a, b) == IF b < a THEN b ELSE a
Max(a, b) == IF b > a THEN b ELSE a

\* what a query hands back: the fields of StageStatus, the connected flag and
\* the identities that a scan found;
\* a query that returns one field leaves the others at these values
NoStatus ==
    [position |-> 0, velocity |-> 0, is_moving |-> FALSE, is_homed |-> FALSE,
     connected |-> FALSE, devices |-> <<>>]

NoCall ==
    [op |-> "none", arg |-> 0, ret |-> FALSE, sent |-> <<>>, out |-> NoStatus,
     seq |-> 0]

\* the record of a completed call; seq flips on every call, so that a call
\* that repeats the previous one is still a visible step
Call(op, arg, ret, sent) ==
    [op |-> op, arg |-> arg, ret |-> ret, sent |-> sent, out |-> NoStatus,
     seq |-> 1 - last.seq]

\* the record of a completed query and the value it returned
Query(op, out) ==
    [op |-> op, arg |-> 0, ret |-> TRUE, sent |-> <<>>, out |-> out,
     seq |-> 1 - last.seq]

\* a call made on the controller: its name, its argument, and whether the
\* controller accepted it (ok) or raised
Cmd(name, val, ok) == [cmd |-> name, val |-> val, ok |-> ok]

\* a handle answers only while the connection it was made on is open
Alive(h) == h \in open_conns

\* ----------------------------------------------------------------- device
\* axis.home(): the device starts travelling to its zero and counts as homed
DevHome ==
    /\ devHomed' = TRUE
    /\ devMode' = IF devPos = 0 THEN "idle" ELSE "abs"
    /\ devGoal' = 0
    /\ devPos' = devPos

\* axis.move_absolute(p, wait_until_idle=False)
DevMoveAbsolute(p) ==
    /\ devMode' = IF devPos = p THEN "idle" ELSE "abs"
    /\ devGoal' = IF devPos = p THEN 0 ELSE p
    /\ UNCHANGED <<devPos, devHomed>>

\* axis.move_velocity(v): the device keeps moving in v's direction
DevMoveVelocity(v) ==
    /\ devMode' = IF v = 0 THEN "idle" ELSE "vel"
    /\ devGoal' = IF v = 0 THEN 0 ELSE IF v > 0 THEN 1 ELSE 0 - 1
    /\ UNCHANGED <<devPos, devHomed>>

\* axis.stop()
DevStop ==
    /\ devMode' = "idle"
    /\ devGoal' = 0
    /\ UNCHANGED <<devPos, devHomed>>

\* the device moves one millimetre; it knows nothing of the software limits
\* and stops by itself only at its target or at the end of its travel
DeviceStep ==
    /\ devMode # "idle"
    /\ LET dir == IF devMode = "vel" THEN devGoal
                  ELSE IF devGoal > devPos THEN 1 ELSE 0 - 1
           next == devPos + dir
       IN  IF next \notin Positions
           THEN /\ devMode' = "idle"
                /\ devGoal' = 0
                /\ devPos' = devPos
           ELSE /\ devPos' = next
                /\ IF devMode = "abs" /\ next = devGoal
                   THEN devMode' = "idle" /\ devGoal' = 0
                   ELSE UNCHANGED <<devMode, devGoal>>
    /\ UNCHANGED <<devHomed, cfgvars, hvars, stvars, rtvars, fg_pc, last>>

\* ------------------------------------------------------- clamping (pure)
\* the clamp with its lower bound forgotten
ClampPosition_upper_only(position_mm) == Min(position_mm, max_pos)

\* the clamp with its upper bound forgotten
ClampPosition_lower_only(position_mm) == Max(min_pos, position_mm)

\* move_to: position = max(self.min_pos, min(position_mm, self.max_pos))
ClampPosition(position_mm) == Max(min_pos, Min(position_mm, max_pos))

\* the clamp with the reverse direction forgotten
ClampVelocity_forward_only(velocity_mm_s) == Min(velocity_mm_s, max_velocity)

\* set_velocity: velocity = max(-self.max_velocity, min(velocity_mm_s, self.max_velocity))
ClampVelocity(velocity_mm_s) == Max(0 - max_velocity, Min(velocity_mm_s, max_velocity))

\* the limit check with strict comparisons: a stage exactly at a limit passes
LimitVelocity_strict(current_pos, velocity) ==
    IF current_pos < min_pos /\ velocity < 0 THEN 0
    ELSE IF current_pos > max_pos /\ velocity > 0 THEN 0
    ELSE velocity

\* set_velocity: the check of the cached position against the limits
LimitVelocity(current_pos, velocity) ==
    IF current_pos <= min_pos /\ velocity < 0 THEN 0
    ELSE IF current_pos >= max_pos /\ velocity > 0 THEN 0
    ELSE velocity

\* the outcomes a controller call on handle h can have: TRUE is accepted,
\* FALSE is an exception; a call on a closed connection always raises
Outcomes(h) == {a \in BOOLEAN : a => Alive(h)}

\* the guard of stop with the homed flag added to it
NotReady_homed == ~connected \/ axis = 0 \/ ~is_homed

\* the guard of move_to and set_velocity with the homed flag left out
NotReadyToMove_unhomed == ~connected \/ axis = 0

\* the guard of home and stop with the connected flag left out: a handle
\* bound in an earlier session passes
NotReady_axis_only == axis = 0

\* the guards that open home/stop and set_velocity/move_to
NotReady == ~connected \/ axis = 0
NotReadyToMove == ~connected \/ axis = 0 \/ ~is_homed

\* --------------------------------------------------------------- commands
\* home() setting the homed flag before the controller has answered
home_flag_first ==
    /\ fg_pc = "idle"
    /\ IF NotReady
       THEN /\ last' = Call("home", 0, FALSE, <<>>)
            /\ UNCHANGED <<stvars, devvars>>
       ELSE \E ok \in Outcomes(axis) :
              /\ last' = Call("home", 0, ok, <<Cmd("home", 0, ok)>>)
              /\ is_homed' = TRUE
              /\ UNCHANGED <<connected, current_position,
                             current_velocity, is_moving>>
              /\ IF ok THEN DevHome ELSE UNCHANGED devvars
    /\ UNCHANGED <<cfgvars, hvars, rtvars, fg_pc>>

home ==
    /\ fg_pc = "idle"
    /\ IF NotReady
       THEN /\ last' = Call("home", 0, FALSE, <<>>)
            /\ UNCHANGED <<stvars, devvars>>
       ELSE \E ok \in Outcomes(axis) :
              /\ last' = Call("home", 0, ok, <<Cmd("home", 0, ok)>>)
              /\ IF ok
                 THEN /\ DevHome
                      /\ is_homed' = TRUE
                      /\ UNCHANGED <<connected, current_position,
                                     current_velocity, is_moving>>
                 ELSE UNCHANGED <<stvars, devvars>>
    /\ UNCHANGED <<cfgvars, hvars, rtvars, fg_pc>>

\* set_velocity() storing the velocity before the controller has answered
set_velocity_store_first(velocity_mm_s) ==
    /\ fg_pc = "idle"
    /\ IF NotReadyToMove
       THEN /\ last' = Call("set_velocity", velocity_mm_s, FALSE, <<>>)
            /\ UNCHANGED <<stvars, devvars>>
       ELSE LET current_pos == current_position
                velocity == LimitVelocity(current_pos, ClampVelocity(velocity_mm_s))
            IN  \E ok \in Outcomes(axis) :
                  /\ lock = "free"
                  /\ last' = Call("set_velocity", velocity_mm_s, ok,
                                  <<Cmd("move_velocity", velocity, ok)>>)
                  /\ current_velocity' = velocity
                  /\ UNCHANGED <<connected, current_position, is_moving,
                                 is_homed>>
                  /\ IF ok THEN DevMoveVelocity(velocity)
                     ELSE UNCHANGED devvars
    /\ UNCHANGED <<cfgvars, hvars, rtvars, fg_pc>>

set_velocity(velocity_mm_s) ==
    /\ fg_pc = "idle"
    /\ IF NotReadyToMove
       THEN /\ last' = Call("set_velocity", velocity_mm_s, FALSE, <<>>)
            /\ UNCHANGED <<stvars, devvars>>
       ELSE LET current_pos == current_position
                velocity == LimitVelocity(current_pos, ClampVelocity(velocity_mm_s))
            IN  \E ok \in Outcomes(axis) :
                  /\ lock = "free"
                  /\ last' = Call("set_velocity", velocity_mm_s, ok,
                                  <<Cmd("move_velocity", velocity, ok)>>)
                  /\ IF ok
                     THEN /\ DevMoveVelocity(velocity)
                          /\ current_velocity' = velocity
                          /\ UNCHANGED <<connected, current_position,
                                         is_moving, is_homed>>
                     ELSE UNCHANGED <<stvars, devvars>>
    /\ UNCHANGED <<cfgvars, hvars, rtvars, fg_pc>>

\* stop() that also clears the cached is_moving flag
stop_clears_moving ==
    /\ fg_pc = "idle"
    /\ IF NotReady
       THEN /\ last' = Call("stop", 0, FALSE, <<>>)
            /\ UNCHANGED <<stvars, devvars>>
       ELSE \E ok \in Outcomes(axis) :
              /\ last' = Call("stop", 0, ok, <<Cmd("stop", 0, ok)>>)
              /\ IF ok
                 THEN /\ DevStop
                      /\ current_velocity' = 0
                      /\ is_moving' = FALSE
                      /\ UNCHANGED <<connected, current_position, is_homed>>
                 ELSE UNCHANGED <<stvars, devvars>>
    /\ UNCHANGED <<cfgvars, hvars, rtvars, fg_pc>>

\* stop() that leaves the cached velocity to the reading thread
stop_keeps_velocity ==
    /\ fg_pc = "idle"
    /\ IF NotReady
       THEN /\ last' = Call("stop", 0, FALSE, <<>>)
            /\ UNCHANGED <<stvars, devvars>>
       ELSE \E ok \in Outcomes(axis) :
              /\ last' = Call("stop", 0, ok, <<Cmd("stop", 0, ok)>>)
              /\ IF ok THEN DevStop ELSE UNCHANGED devvars
              /\ UNCHANGED stvars
    /\ UNCHANGED <<cfgvars, hvars, rtvars, fg_pc>>

stop ==
    /\ fg_pc = "idle"
    /\ IF NotReady
       THEN /\ last' = Call("stop", 0, FALSE, <<>>)
            /\ UNCHANGED <<stvars, devvars>>
       ELSE \E ok \in Outcomes(axis) :
              /\ last' = Call("stop", 0, ok, <<Cmd("stop", 0, ok)>>)
              /\ IF ok
                 THEN /\ DevStop
                      /\ current_velocity' = 0
                      /\ UNCHANGED <<connected, current_position,
                                     is_moving, is_homed>>
                 ELSE UNCHANGED <<stvars, devvars>>
    /\ UNCHANGED <<cfgvars, hvars, rtvars, fg_pc>>

move_to(position_mm) ==
    /\ fg_pc = "idle"
    /\ IF NotReadyToMove
       THEN /\ last' = Call("move_to", position_mm, FALSE, <<>>)
            /\ UNCHANGED devvars
       ELSE LET position == ClampPosition(position_mm)
            IN  \E ok \in {a \in Outcomes(axis) : a => position \in Positions} :
                  /\ last' = Call("move_to", position_mm, ok,
                                  <<Cmd("move_absolute", position, ok)>>)
                  /\ IF ok THEN DevMoveAbsolute(position) ELSE UNCHANGED devvars
    /\ UNCHANGED <<cfgvars, hvars, stvars, rtvars, fg_pc>>

\* ---------------------------------------------------- configuration file
\* A rate or a period is a fraction <<numerator, denominator>>; 1.0 / x swaps
\* the two. (The float quotient is the nearest double to this fraction.)
Hz(rate) == <<rate, 1>>
Recip(q) == <<q[2], q[1]>>

\* __init__: self.reading_interval = 1.0 / min(reading_rate_hz, 100.0)
IntervalOfRate(reading_rate_hz) == Recip(Hz(Min(reading_rate_hz, MaxRate)))

\* the keys of the JSON record and the fields of a DeviceInfo
Keys == {"port", "position_limits_mm", "max_velocity_mm_s", "reading_rate_hz",
         "device_info"}
Fields == {"port", "device_id", "serial_number", "name", "firmware_version",
           "device_type", "axis_count"}

\* null in the place of an identity, and DeviceInfo.to_dict(): an identity is
\* known here by the endpoint it was read on, and its dictionary has every field
NoIdentity == [fields |-> {}, id |-> "none"]
to_dict(info) ==
    IF info = "none" THEN NoIdentity ELSE [fields |-> Fields, id |-> info]

\* a JSON record: `has` are the keys present, an absent key holds a filler
FileRecord(has, p, limits, vmax, rate, info) ==
    [exists |-> TRUE, has |-> has,
     port |-> IF "port" \in has THEN p ELSE "none",
     position_limits_mm |-> IF "position_limits_mm" \in has THEN limits
                            ELSE <<0, 0>>,
     max_velocity_mm_s |-> IF "max_velocity_mm_s" \in has THEN vmax ELSE 0,
     reading_rate_hz |-> IF "reading_rate_hz" \in has THEN rate ELSE Hz(0),
     device_info |-> IF "device_info" \in has THEN info ELSE NoIdentity]

\* no file at the configuration path
NoFile ==
    [exists |-> FALSE, has |-> {}, port |-> "none",
     position_limits_mm |-> <<0, 0>>, max_velocity_mm_s |-> 0,
     reading_rate_hz |-> Hz(0), device_info |-> NoIdentity]

\* the dictionary save_config builds: every key, the rate as 1.0 / interval
ConfigRecord(p, lo, hi, vmax, interval, info) ==
    FileRecord(Keys, p, <<lo, hi>>, vmax, Recip(interval), to_dict(info))

\* config.get(key, default)
Get(rec, key, default) == IF key \in rec.has THEN rec[key] ELSE default

\* ------------------------------------------------------------- discovery
\* what one candidate endpoint does when it is opened and asked for devices
ScanOutcomes == {"openfail", "detectfail", "empty", "found"}

\* the same, and an endpoint with two devices on it
WideOutcomes == ScanOutcomes \cup {"pair"}

\* how many devices detect_devices() lists on an endpoint
DeviceCount(o) == IF o = "found" THEN 1 ELSE IF o = "pair" THEN 2 ELSE 0

RECURSIVE FirstFound(_, _)
FirstFound(outcome, i) ==
    IF i > Len(PortList) THEN "none"
    ELSE IF DeviceCount(outcome[PortList[i]]) > 0 THEN PortList[i]
    ELSE FirstFound(outcome, i + 1)

\* the loop of scan_devices from the i-th endpoint on: an endpoint that does
\* not open, whose detection raises or that lists nothing adds nothing
RECURSIVE ScanFrom(_, _)
ScanFrom(outcome, i) ==
    IF i > Len(PortList) THEN <<>>
    ELSE [k \in 1..DeviceCount(outcome[PortList[i]]) |-> PortList[i]]
         \o ScanFrom(outcome, i + 1)

\* scan_devices() giving up at the first endpoint that raises: the endpoints
\* from that one on add nothing
scan_devices_until_failure(outcome) ==
    LET bad == {i \in 1..Len(PortList) :
                  outcome[PortList[i]] \in {"openfail", "detectfail"}}
        seen == {PortList[i] : i \in {j \in 1..Len(PortList) :
                                        \A k \in bad : j < k}}
    IN  ScanFrom([p \in Ports |-> IF p \in seen THEN outcome[p] ELSE "empty"], 1)

\* scan_devices(): the identities found, one for each device, in scan order
scan_devices(outcome) == ScanFrom(outcome, 1)

\* the calls scan_devices() makes on the transport, from the i-th endpoint
\* on: every endpoint is opened, an opened one is asked for its devices, and
\* one that answered is closed
RECURSIVE ScanCalls(_, _)
ScanCalls(outcome, i) ==
    IF i > Len(PortList) THEN <<>>
    ELSE LET o == outcome[PortList[i]]
         IN  <<Cmd("open_serial_port", i, o # "openfail")>>
             \o (IF o = "openfail" THEN <<>>
                 ELSE <<Cmd("detect_devices", DeviceCount(o), o # "detectfail")>>)
             \o (IF o \in {"openfail", "detectfail"} THEN <<>>
                 ELSE <<Cmd("close", i, TRUE)>>)
             \o ScanCalls(outcome, i + 1)

\* _find_zaber_port() that falls back on the first endpoint
find_zaber_port_or_first(outcome) ==
    IF FirstFound(outcome, 1) = "none" THEN PortList[1]
    ELSE FirstFound(outcome, 1)

\* _find_zaber_port(): the first endpoint with a device, or None
find_zaber_port(outcome) == FirstFound(outcome, 1)

\* ------------------------------------------------------ the reading thread
\* _start_position_reading(): nothing while the thread is alive
ThreadAlive == rt_pc \notin {"none", "done"}

\* a start that clears the stop event although the old thread is alive
start_position_reading_clearing ==
    IF ThreadAlive
    THEN /\ stop_reading' = FALSE
         /\ UNCHANGED rt_pc
    ELSE /\ stop_reading' = FALSE
         /\ rt_pc' = "check"

start_position_reading ==
    IF ThreadAlive
    THEN UNCHANGED <<stop_reading, rt_pc>>
    ELSE /\ stop_reading' = FALSE
         /\ rt_pc' = "check"

\* the loop test taking the status lock before the device is read
rt_check_locking ==
    /\ rt_pc = "check"
    /\ IF stop_reading
       THEN /\ rt_pc' = "done"
            /\ UNCHANGED <<lock, rt_ok, rt_position, rt_is_moving>>
       ELSE IF axis = 0
       THEN UNCHANGED <<lock, rt_pc, rt_ok, rt_position, rt_is_moving>>
       ELSE /\ lock = "free"
            /\ lock' = "reader"
            /\ \E ok \in Outcomes(axis) :
                 /\ rt_pc' = "wait_pos"
                 /\ rt_ok' = ok
                 /\ rt_position' = IF ok THEN devPos ELSE 0
                 /\ UNCHANGED rt_is_moving
    /\ UNCHANGED <<stop_reading, cfgvars, hvars, stvars, fg_pc, devvars, last>>

\* `while not self._stop_reading.is_set()`, then the call of get_position;
\* the device answers at once, the thread receives the answer in its next step
rt_check ==
    /\ rt_pc = "check"
    /\ IF stop_reading
       THEN /\ rt_pc' = "done"
            /\ UNCHANGED <<rt_ok, rt_position, rt_is_moving>>
       ELSE IF axis = 0
       THEN UNCHANGED <<rt_pc, rt_ok, rt_position, rt_is_moving>>
       ELSE \E ok \in Outcomes(axis) :
              /\ rt_pc' = "wait_pos"
              /\ rt_ok' = ok
              /\ rt_position' = IF ok THEN devPos ELSE 0
              /\ UNCHANGED rt_is_moving
    /\ UNCHANGED <<lock, stop_reading, cfgvars, hvars, stvars, fg_pc, devvars,
                   last>>

\* get_position returns (or raises: the cycle is skipped), then is_busy is called
rt_got_position ==
    /\ rt_pc = "wait_pos"
    /\ IF ~rt_ok
       THEN /\ rt_pc' = "check"
            /\ rt_ok' = TRUE
            /\ rt_position' = 0
            /\ UNCHANGED rt_is_moving
       ELSE \E ok \in Outcomes(axis) :
              /\ rt_pc' = "wait_busy"
              /\ rt_ok' = ok
              /\ rt_is_moving' = IF ok THEN devMode # "idle" ELSE FALSE
              /\ UNCHANGED rt_position
    /\ UNCHANGED <<lock, stop_reading, cfgvars, hvars, stvars, fg_pc, devvars,
                   last>>

\* the thread writing the position alone and leaving is_moving for later
rt_got_busy_position_only ==
    /\ rt_pc = "wait_busy"
    /\ IF ~rt_ok
       THEN UNCHANGED stvars
       ELSE /\ current_position' = rt_position
            /\ current_velocity' = IF ~rt_is_moving THEN 0 ELSE current_velocity
            /\ UNCHANGED <<connected, is_moving, is_homed>>
    /\ rt_pc' = "check"
    /\ rt_ok' = TRUE
    /\ rt_position' = 0
    /\ rt_is_moving' = FALSE
    /\ UNCHANGED <<lock, stop_reading, cfgvars, hvars, fg_pc, devvars, last>>

\* the thread storing the position it has read although is_busy raised
rt_got_busy_keeps_position ==
    /\ rt_pc = "wait_busy"
    /\ current_position' = rt_position
    /\ is_moving' = IF rt_ok THEN rt_is_moving ELSE is_moving
    /\ current_velocity' = IF rt_ok /\ ~rt_is_moving THEN 0 ELSE current_velocity
    /\ UNCHANGED <<connected, is_homed>>
    /\ rt_pc' = "check"
    /\ rt_ok' = TRUE
    /\ rt_position' = 0
    /\ rt_is_moving' = FALSE
    /\ UNCHANGED <<lock, stop_reading, cfgvars, hvars, fg_pc, devvars, last>>

\* is_busy returns (or raises), then the cache is written under the lock and
\* the thread sleeps until its next cycle
rt_got_busy ==
    /\ rt_pc = "wait_busy"
    /\ rt_ok => lock = "free"
    /\ IF ~rt_ok
       THEN UNCHANGED stvars
       ELSE /\ current_position' = rt_position
            /\ is_moving' = rt_is_moving
            /\ current_velocity' = IF ~rt_is_moving THEN 0 ELSE current_velocity
            /\ UNCHANGED <<connected, is_homed>>
    /\ rt_pc' = "check"
    /\ rt_ok' = TRUE
    /\ rt_position' = 0
    /\ rt_is_moving' = FALSE
    /\ UNCHANGED <<lock, stop_reading, cfgvars, hvars, fg_pc, devvars, last>>

\* The same cycle with the critical section in steps of its own.
\* is_busy raises: the cycle is skipped
rt_busy_failed ==
    /\ ~rt_ok
    /\ rt_got_busy

\* is_busy returns and the thread enters `with self._lock`
rt_acquire ==
    /\ rt_pc = "wait_busy"
    /\ rt_ok
    /\ lock = "free"
    /\ lock' = "reader"
    /\ rt_pc' = "locked"
    /\ UNCHANGED <<stop_reading, rt_ok, rt_position, rt_is_moving, cfgvars,
                   hvars, stvars, fg_pc, devvars, last>>

\* the body of `with self._lock`: the cache is written, the lock is released
\* and the thread sleeps until its next cycle
rt_release ==
    /\ rt_pc = "locked"
    /\ current_position' = rt_position
    /\ is_moving' = rt_is_moving
    /\ current_velocity' = IF ~rt_is_moving THEN 0 ELSE current_velocity
    /\ UNCHANGED <<connected, is_homed>>
    /\ lock' = "free"
    /\ rt_pc' = "check"
    /\ rt_ok' = TRUE
    /\ rt_position' = 0
    /\ rt_is_moving' = FALSE
    /\ UNCHANGED <<stop_reading, cfgvars, hvars, fg_pc, devvars, last>>

\* ---------------------------------------------------------------- connect
\* save_config(): the record written to the configuration file
SavedConfig(p, info) ==
    ConfigRecord(p, min_pos, max_pos, max_velocity, reading_interval, info)

\* connect() with the environment's answers: scan and find are the endpoints'
\* answers to scan_devices and _find_zaber_port, open the answer to the open
\* of the chosen endpoint, homed_ok/position_ok/save_ok whether is_homed(),
\* get_position() and the write of the file succeed
connect_with(scan, find, open, homed_ok, position_ok, save_ok) ==
    LET auto == port = "auto"
        saved_devices == IF auto THEN scan_devices(scan) ELSE <<>>
        saved == IF saved_devices # <<>> THEN saved_devices[1] ELSE "none"
        found == IF auto /\ saved = "none" THEN find_zaber_port(find) ELSE "none"
        port1 == IF ~auto THEN port ELSE IF saved # "none" THEN saved ELSE found
        info1 == IF auto /\ saved # "none" THEN saved ELSE device_info
        h == connection + 1
        opened == port1 # "none" /\ open # "openfail"
        bound == opened /\ open = "found"
        info2 == IF bound /\ info1 = "none" THEN port1 ELSE info1
        saving == bound /\ info1 = "none"
        up == bound /\ homed_ok
        sent == (IF auto
                 THEN <<Cmd("scan_devices", 0, \E p \in Ports : scan[p] = "found")>>
                 ELSE <<>>)
                \o (IF auto /\ saved = "none"
                    THEN <<Cmd("_find_zaber_port", 0,
                               \E p \in Ports : find[p] = "found")>>
                    ELSE <<>>)
                \o (IF port1 = "none" THEN <<>>
                    ELSE <<Cmd("open_serial_port", 0, opened)>>)
    IN  /\ port' = port1
        /\ device_info' = info2
        /\ config_file' = IF saving /\ save_ok THEN SavedConfig(port1, info2)
                          ELSE config_file
        /\ connection' = IF opened THEN h ELSE connection
        /\ open_conns' = IF opened THEN open_conns \cup {h} ELSE open_conns
        /\ device' = IF bound THEN h ELSE device
        /\ axis' = IF bound THEN h ELSE axis
        /\ IF up
           THEN /\ is_homed' = devHomed
                /\ current_position' = IF position_ok THEN devPos ELSE 0
                /\ connected' = TRUE
                /\ start_position_reading
           ELSE UNCHANGED <<is_homed, current_position, connected,
                            stop_reading, rt_pc>>
        /\ last' = Call("connect", 0, up, sent)
        /\ UNCHANGED <<min_pos, max_pos, max_velocity, reading_interval,
                       current_velocity, is_moving, lock, rt_ok, rt_position,
                       rt_is_moving, fg_pc, devvars>>

\* the answers that matter to one connect() call: endpoints are scanned only
\* in auto mode, searched again only when the scan found nothing, and the
\* later calls are made only when the earlier ones succeeded
NoAnswer == [p \in Ports |-> "empty"]
ScanAnswers == IF port = "auto" THEN [Ports -> ScanOutcomes] ELSE {NoAnswer}
FindAnswers(scan) ==
    IF port = "auto" /\ scan_devices(scan) = <<>>
    THEN [Ports -> ScanOutcomes] ELSE {NoAnswer}
OpenAnswers(scan, find) ==
    IF port = "auto" /\ scan_devices(scan) = <<>> /\ find_zaber_port(find) = "none"
    THEN {"openfail"} ELSE ScanOutcomes
Then(made) == IF made THEN BOOLEAN ELSE {TRUE}

connect ==
    /\ fg_pc = "idle"
    /\ connection < MaxOpens
    /\ \E scan \in ScanAnswers :
       \E find \in FindAnswers(scan) :
       \E open \in OpenAnswers(scan, find) :
       \E homed_ok \in Then(open = "found") :
       \E position_ok \in Then(open = "found" /\ homed_ok) :
       \E save_ok \in Then(open = "found") :
         connect_with(scan, find, open, homed_ok, position_ok, save_ok)

\* the first connect() of a session on an explicit endpoint that answers: the
\* open, the detection, is_homed(), the position read and the write of the
\* file all succeed (connect, above, has every other answer)
connect_first ==
    /\ fg_pc = "idle"
    /\ connection = 0
    /\ port \in Ports
    /\ connect_with(NoAnswer, NoAnswer, "found", TRUE, TRUE, TRUE)

\* ------------------------------------------------------------- disconnect
\* _stop_position_reading(): set the stop event, then join(timeout=1.0)
disconnect_begin ==
    /\ fg_pc = "idle"
    /\ stop_reading' = TRUE
    /\ fg_pc' = "join"
    /\ UNCHANGED <<lock, rt_pc, rt_ok, rt_position, rt_is_moving, cfgvars,
                   hvars, stvars, devvars, last>>

\* join returns when there is no thread or it has ended, and after one second
\* when the thread is still inside a device call
JoinReturns == ~ThreadAlive \/ rt_pc \in {"wait_pos", "wait_busy"}

\* disconnect() without its try/except: a raising axis.stop() ends the call
disconnect_rest_unguarded(stop_ok, close_ok) ==
    LET stopping == axis # 0
        closing == connection # 0
        aborted == stopping /\ ~stop_ok
        sent == (IF stopping THEN <<Cmd("stop", 0, stop_ok)>> ELSE <<>>)
                \o (IF closing /\ ~aborted THEN <<Cmd("close", 0, close_ok)>>
                    ELSE <<>>)
    IN  /\ IF stopping /\ stop_ok THEN DevStop ELSE UNCHANGED devvars
        /\ open_conns' = IF closing /\ close_ok /\ ~aborted
                         THEN open_conns \ {connection} ELSE open_conns
        /\ connected' = IF aborted THEN connected ELSE FALSE
        /\ fg_pc' = "idle"
        /\ last' = Call("disconnect", 0, ~aborted, sent)
        /\ UNCHANGED <<connection, device, axis, current_position,
                       current_velocity, is_moving, is_homed, cfgvars, rtvars>>

\* the rest of disconnect(): stop_ok and close_ok are whether axis.stop() and
\* connection.close() return (TRUE) or raise (FALSE)
disconnect_rest(stop_ok, close_ok) ==
    LET stopping == axis # 0
        closing == connection # 0
        sent == (IF stopping THEN <<Cmd("stop", 0, stop_ok)>> ELSE <<>>)
                \o (IF closing THEN <<Cmd("close", 0, close_ok)>> ELSE <<>>)
    IN  /\ IF stopping /\ stop_ok THEN DevStop ELSE UNCHANGED devvars
        /\ open_conns' = IF closing /\ close_ok THEN open_conns \ {connection}
                         ELSE open_conns
        /\ connected' = FALSE
        /\ fg_pc' = "idle"
        /\ last' = Call("disconnect", 0, TRUE, sent)
        /\ UNCHANGED <<connection, device, axis, current_position,
                       current_velocity, is_moving, is_homed, cfgvars, rtvars>>

disconnect_finish ==
    /\ fg_pc = "join"
    /\ JoinReturns
    /\ \E stop_ok \in {a \in BOOLEAN : a => (axis = 0 \/ Alive(axis))},
          close_ok \in BOOLEAN :
         disconnect_rest(stop_ok, close_ok)

\* ---------------------------------------------------------------- queries
\* abs() that keeps the sign
Abs_signed(x) == x

Abs(x) == IF x < 0 THEN 0 - x ELSE x

\* a query changes nothing but the record of the last call
QueryFrame == UNCHANGED <<cfgvars, hvars, stvars, rtvars, fg_pc, devvars>>

\* get_position() asking the device instead of the cache
get_position_refreshing ==
    /\ fg_pc = "idle"
    /\ \E ok \in Outcomes(axis) :
         /\ current_position' = IF ok THEN devPos ELSE current_position
         /\ last' = [Query("get_position",
                           [NoStatus EXCEPT !.position = current_position'])
                     EXCEPT !.sent = <<Cmd("get_position", 0, ok)>>]
    /\ UNCHANGED <<cfgvars, hvars, connected, current_velocity, is_moving,
                   is_homed, rtvars, fg_pc, devvars>>

\* get_position(): the cached position, read under the lock
get_position ==
    /\ fg_pc = "idle"
    /\ lock = "free"
    /\ last' = Query("get_position",
                     [NoStatus EXCEPT !.position = current_position])
    /\ QueryFrame

\* get_distance_from_home(): abs(self.get_position())
get_distance_from_home ==
    /\ fg_pc = "idle"
    /\ lock = "free"
    /\ last' = Query("get_distance_from_home",
                     [NoStatus EXCEPT !.position = Abs(current_position)])
    /\ QueryFrame

\* get_status(): the four cached fields, read in one critical section
get_status ==
    /\ fg_pc = "idle"
    /\ lock = "free"
    /\ last' = Query("get_status",
                     [position |-> current_position,
                      velocity |-> current_velocity,
                      is_moving |-> is_moving, is_homed |-> is_homed,
                      connected |-> FALSE, devices |-> <<>>])
    /\ QueryFrame

\* is_connected(), is_homed(), is_moving()
query_is_connected ==
    /\ fg_pc = "idle"
    /\ last' = Query("is_connected", [NoStatus EXCEPT !.connected = connected])
    /\ QueryFrame

query_is_homed ==
    /\ fg_pc = "idle"
    /\ last' = Query("is_homed", [NoStatus EXCEPT !.is_homed = is_homed])
    /\ QueryFrame

\* The queries that take the lock, with the critical section in steps of its
\* own: the lock is taken, then the value is read and the lock released.
LockedQueries ==
    {"get_position", "get_distance_from_home", "get_status", "is_moving"}

query_acquire ==
    /\ fg_pc = "idle"
    /\ lock = "free"
    /\ lock' = "caller"
    /\ \E q \in LockedQueries : fg_pc' = q
    /\ UNCHANGED <<stop_reading, rt_pc, rt_ok, rt_position, rt_is_moving,
                   cfgvars, hvars, stvars, devvars, last>>

query_release ==
    /\ fg_pc \in LockedQueries
    /\ last' = Query(fg_pc,
          CASE fg_pc = "get_position" ->
                 [NoStatus EXCEPT !.position = current_position]
            [] fg_pc = "get_distance_from_home" ->
                 [NoStatus EXCEPT !.position = Abs(current_position)]
            [] fg_pc = "get_status" ->
                 [position |-> current_position,
                  velocity |-> current_velocity,
                  is_moving |-> is_moving, is_homed |-> is_homed,
                  connected |-> FALSE, devices |-> <<>>]
            [] fg_pc = "is_moving" ->
                 [NoStatus EXCEPT !.is_moving = is_moving])
    /\ lock' = "free"
    /\ fg_pc' = "idle"
    /\ UNCHANGED <<stop_reading, rt_pc, rt_ok, rt_position, rt_is_moving,
                   cfgvars, hvars, stvars, devvars>>

\* scan_devices() called on its own: every candidate endpoint is tried, with
\* any outcome, and the list of identities found is returned
query_scan_devices ==
    /\ fg_pc = "idle"
    /\ \E outcome \in [Ports -> WideOutcomes] :
         last' = [Query("scan_devices",
                        [NoStatus EXCEPT !.devices = scan_devices(outcome)])
                  EXCEPT !.sent = ScanCalls(outcome, 1)]
    /\ QueryFrame

query_is_moving ==
    /\ fg_pc = "idle"
    /\ lock = "free"
    /\ last' = Query("is_moving", [NoStatus EXCEPT !.is_moving = is_moving])
    /\ QueryFrame

\* ---------------------------------------------------------- configuration
\* save_config(): write_ok is whether the file could be written
save_config ==
    /\ fg_pc = "idle"
    /\ \E write_ok \in BOOLEAN :
         /\ config_file' = IF write_ok THEN SavedConfig(port, device_info)
                           ELSE config_file
         /\ last' = Call("save_config", 0, write_ok, <<>>)
    /\ UNCHANGED <<port, min_pos, max_pos, max_velocity, reading_interval,
                   device_info, hvars, stvars, rtvars, fg_pc, devvars>>

\* load_config() that takes a missing file for an empty record
load_config_missing_as_empty ==
    /\ fg_pc = "idle"
    /\ LET config == config_file
           limits == Get(config, "position_limits_mm", DefaultLimits)
           reading_rate == Get(config, "reading_rate_hz", Hz(DefaultRate))
           info == Get(config, "device_info", NoIdentity)
           rate_ok == reading_rate[1] # 0
           info_ok == info.fields = {} \/ Fields \subseteq info.fields
       IN  /\ port' = Get(config, "port", "auto")
           /\ min_pos' = limits[1]
           /\ max_pos' = limits[2]
           /\ max_velocity' = Get(config, "max_velocity_mm_s", DefaultMaxVelocity)
           /\ reading_interval' = IF rate_ok THEN Recip(reading_rate)
                                  ELSE reading_interval
           /\ device_info' = IF rate_ok /\ info_ok /\ info.fields # {}
                             THEN info.id ELSE device_info
           /\ last' = Call("load_config", 0, rate_ok /\ info_ok, <<>>)
    /\ UNCHANGED <<config_file, hvars, stvars, rtvars, fg_pc, devvars>>

\* load_config() that keeps the controller's value where a key is missing
load_config_keep_missing ==
    /\ fg_pc = "idle"
    /\ IF ~config_file.exists
       THEN /\ last' = Call("load_config", 0, FALSE, <<>>)
            /\ UNCHANGED <<port, min_pos, max_pos, max_velocity,
                           reading_interval, device_info>>
       ELSE LET config == config_file
                limits == Get(config, "position_limits_mm", <<min_pos, max_pos>>)
                reading_rate == Get(config, "reading_rate_hz",
                                    Recip(reading_interval))
                info == Get(config, "device_info", NoIdentity)
                rate_ok == reading_rate[1] # 0
                info_ok == info.fields = {} \/ Fields \subseteq info.fields
            IN  /\ port' = Get(config, "port", port)
                /\ min_pos' = limits[1]
                /\ max_pos' = limits[2]
                /\ max_velocity' = Get(config, "max_velocity_mm_s", max_velocity)
                /\ reading_interval' = IF rate_ok THEN Recip(reading_rate)
                                       ELSE reading_interval
                /\ device_info' = IF rate_ok /\ info_ok /\ info.fields # {}
                                  THEN info.id ELSE device_info
                /\ last' = Call("load_config", 0, rate_ok /\ info_ok, <<>>)
    /\ UNCHANGED <<config_file, hvars, stvars, rtvars, fg_pc, devvars>>

\* load_config() that stores the rate of the record as the period
load_config_rate_as_period ==
    /\ fg_pc = "idle"
    /\ IF ~config_file.exists
       THEN /\ last' = Call("load_config", 0, FALSE, <<>>)
            /\ UNCHANGED <<port, min_pos, max_pos, max_velocity,
                           reading_interval, device_info>>
       ELSE LET config == config_file
                limits == Get(config, "position_limits_mm", DefaultLimits)
                reading_rate == Get(config, "reading_rate_hz", Hz(DefaultRate))
                info == Get(config, "device_info", NoIdentity)
                rate_ok == reading_rate[1] # 0
                info_ok == info.fields = {} \/ Fields \subseteq info.fields
            IN  /\ port' = Get(config, "port", "auto")
                /\ min_pos' = limits[1]
                /\ max_pos' = limits[2]
                /\ max_velocity' = Get(config, "max_velocity_mm_s", DefaultMaxVelocity)
                /\ reading_interval' = IF rate_ok THEN reading_rate
                                       ELSE reading_interval
                /\ device_info' = IF rate_ok /\ info_ok /\ info.fields # {}
                                  THEN info.id ELSE device_info
                /\ last' = Call("load_config", 0, rate_ok /\ info_ok, <<>>)
    /\ UNCHANGED <<config_file, hvars, stvars, rtvars, fg_pc, devvars>>

\* load_config(): a missing file is reported before anything is assigned; the
\* settings are assigned in the order of the code, so that a zero rate (the
\* division raises) or an identity with a missing field (the lookup raises)
\* ends the call with the earlier settings already applied
load_config ==
    /\ fg_pc = "idle"
    /\ IF ~config_file.exists
       THEN /\ last' = Call("load_config", 0, FALSE, <<>>)
            /\ UNCHANGED <<port, min_pos, max_pos, max_velocity,
                           reading_interval, device_info>>
       ELSE LET config == config_file
                limits == Get(config, "position_limits_mm", DefaultLimits)
                reading_rate == Get(config, "reading_rate_hz", Hz(DefaultRate))
                info == Get(config, "device_info", NoIdentity)
                rate_ok == reading_rate[1] # 0
                info_ok == info.fields = {} \/ Fields \subseteq info.fields
            IN  /\ port' = Get(config, "port", "auto")
                /\ min_pos' = limits[1]
                /\ max_pos' = limits[2]
                /\ max_velocity' = Get(config, "max_velocity_mm_s", DefaultMaxVelocity)
                /\ reading_interval' = IF rate_ok THEN Recip(reading_rate)
                                       ELSE reading_interval
                /\ device_info' = IF rate_ok /\ info_ok /\ info.fields # {}
                                  THEN info.id ELSE device_info
                /\ last' = Call("load_config", 0, rate_ok /\ info_ok, <<>>)
    /\ UNCHANGED <<config_file, hvars, stvars, rtvars, fg_pc, devvars>>

\* the records a configuration file is found to hold: any of the keys may be
\* missing, the rate may be zero or above the ceiling, the identity null,
\* complete, or short of a field
FileIdentities ==
    {NoIdentity, to_dict(PortList[1]),
     [fields |-> Fields \ {"axis_count"}, id |-> PortList[1]]}
FileRates == {Hz(0), Hz(2 * DefaultRate)}
FileRecords ==
    {FileRecord(has, PortList[2], <<MinPos + 1, MaxPos + 1>>, MaxVel + 1,
                rate, info) :
        has \in SUBSET Keys, rate \in FileRates, info \in FileIdentities}

\* somebody else writes or removes the configuration file
edit_file ==
    /\ config_file' \in (FileRecords \cup {NoFile}) \ {config_file}
    /\ UNCHANGED <<port, min_pos, max_pos, max_velocity, reading_interval,
                   device_info, hvars, stvars, rtvars, fg_pc, devvars, last>>

\* ------------------------------------------------------------------ system
\* __init__ with its arguments drawn from the given sets
Constructed(ports, limits, velocities, rates) ==
    /\ port \in ports
    /\ \E position_limit_mm \in limits :
         /\ min_pos = position_limit_mm[1]
         /\ max_pos = position_limit_mm[2]
    /\ max_velocity \in velocities
    /\ \E reading_rate_hz \in rates :
         reading_interval = IntervalOfRate(reading_rate_hz)
    /\ device_info = "none"
    /\ config_file = NoFile

\* __init__: nothing bound, nothing cached, no thread; the device is anywhere
\* in the given positions, homed or not
NotStarted(positions) ==
    /\ connection = 0
    /\ device = 0
    /\ axis = 0
    /\ open_conns = {}
    /\ connected = FALSE
    /\ current_position = 0
    /\ current_velocity = 0
    /\ is_moving = FALSE
    /\ is_homed = FALSE
    /\ lock = "free"
    /\ stop_reading = FALSE
    /\ rt_pc = "none"
    /\ rt_ok = TRUE
    /\ rt_position = 0
    /\ rt_is_moving = FALSE
    /\ fg_pc = "idle"
    /\ devPos \in positions
    /\ devMode = "idle"
    /\ devGoal = 0
    /\ devHomed \in BOOLEAN
    /\ last = NoCall

InitWith(ports, positions) ==
    /\ Constructed(ports, {<<MinPos, MaxPos>>}, {MaxVel}, {DefaultRate})
    /\ NotStarted(positions)

\* the inputs of the full-range calls and of the calls beyond the limits
SetVelocity == \E v \in Velocities : set_velocity(v)
MoveTo == \E t \in Targets : move_to(t)
DriveBeyond == \E v \in {0 - (MaxVel + 1), MaxVel + 1} : set_velocity(v)
MoveBeyond == \E t \in {MaxPos + 1} : move_to(t)

\* Spec: one session of the whole program, both threads and the device in
\* every interleaving; the caller drives the stage beyond its limits. The
\* device starts inside the configured limits, homed or not.
Init == InitWith({PortList[1]}, MinPos..MaxPos)

Next ==
    \/ connect_first
    \/ disconnect_begin
    \/ disconnect_finish
    \/ home
    \/ DriveBeyond
    \/ stop
    \/ MoveBeyond
    \/ rt_check
    \/ rt_got_position
    \/ rt_got_busy
    \/ DeviceStep

Spec == Init /\ [][Next]_vars

\* SpecCalls: the calling thread's handlers with every input. A handler reads
\* the connected flag, the axis handle, the homed flag, the cached position
\* and the configuration only; the device is left anywhere in its travel, so
\* connect() caches every position, below, at, inside and above the limits.
InitCalls == InitWith({PortList[1]}, Positions)

NextCalls ==
    \/ connect_first
    \/ disconnect_begin
    \/ disconnect_finish
    \/ home
    \/ SetVelocity
    \/ stop
    \/ MoveTo

SpecCalls == InitCalls /\ [][NextCalls]_vars

\* SpecLink: connecting and disconnecting, in auto mode and on an explicit
\* endpoint, with every answer of the transport, next to the reading thread
InitLink == InitWith({"auto", PortList[1]}, {1})

NextLink ==
    \/ connect
    \/ disconnect_begin
    \/ disconnect_finish
    \/ rt_check
    \/ rt_got_position
    \/ rt_got_busy

SpecLink == InitLink /\ [][NextLink]_vars

\* SpecStop: the sessions of SpecLink with a reading thread that keeps
\* running: its loop test is taken again after every sleep and the device
\* calls it is waiting in return (weak fairness of the three thread steps)
FairStop ==
    /\ WF_vars(rt_check)
    /\ WF_vars(rt_got_position)
    /\ WF_vars(rt_got_busy)

SpecStop == InitLink /\ [][NextLink]_vars /\ FairStop

\* SpecSettle: a connected session that is never closed, with the caller
\* homing and moving to every target, below, inside and above the limits.
\* The reading thread and the device keep taking their steps (weak fairness:
\* the thread is a loop that sleeps and runs again, the device a motor), and
\* a device that answers is allowed to fail single reads but not all of them
\* (strong fairness of the answered get_position and is_busy).
InitSettle == InitWith({PortList[1]}, Positions)

NextSettle ==
    \/ connect_first
    \/ home
    \/ MoveTo
    \/ rt_check
    \/ rt_got_position
    \/ rt_got_busy
    \/ DeviceStep

FairSettle ==
    /\ WF_vars(rt_check)
    /\ WF_vars(rt_got_position)
    /\ WF_vars(rt_got_busy)
    /\ WF_vars(DeviceStep)
    /\ SF_vars(rt_check /\ rt_ok')
    /\ SF_vars(rt_got_position /\ rt_pc' = "wait_busy" /\ rt_ok')

SpecSettle == InitSettle /\ [][NextSettle]_vars /\ FairSettle

\* SpecQuery: the queries of the calling thread in every interleaving with
\* the reading thread and a device, homed or not when the session starts,
\* set in motion by set_velocity beyond the velocity limit in both directions
InitQuery == InitWith({PortList[1]}, {MinPos + 1})

NextQuery ==
    \/ connect_first
    \/ disconnect_begin
    \/ disconnect_finish
    \/ DriveBeyond
    \/ get_position
    \/ get_distance_from_home
    \/ get_status
    \/ query_is_connected
    \/ query_is_homed
    \/ query_is_moving
    \/ rt_check
    \/ rt_got_position
    \/ rt_got_busy
    \/ DeviceStep

SpecQuery == InitQuery /\ [][NextQuery]_vars

\* SpecConfig: saving and loading the configuration. The controller is
\* constructed on "auto" or on an explicit endpoint with a reading rate below
\* or above the ceiling; the file is written by save_config (by hand or
\* at the first connect) and by others, with every record of FileRecords.
InitConfig ==
    /\ Constructed({"auto", PortList[1]}, {<<MinPos, MaxPos>>}, {MaxVel},
                   {DefaultRate \div 2, 2 * DefaultRate})
    /\ NotStarted({MinPos})

NextConfig ==
    \/ connect_first
    \/ save_config
    \/ load_config
    \/ edit_file

SpecConfig == InitConfig /\ [][NextConfig]_vars

\* SpecLock: the status lock step by step. The calling thread asks every
\* query and drives the stage while the reading thread polls; taking the
\* lock and leaving it are steps of their own, so that the other thread can
\* run while the lock is held.
NextLock ==
    \/ connect_first
    \/ DriveBeyond
    \/ query_acquire
    \/ query_release
    \/ query_is_homed
    \/ rt_check
    \/ rt_got_position
    \/ rt_busy_failed
    \/ rt_acquire
    \/ rt_release
    \/ DeviceStep

SpecLock == InitQuery /\ [][NextLock]_vars

\* SpecScan: discovery, called on its own and by connect() in automatic mode,
\* over endpoints that fail to open, fail detection, list nothing, one device
\* or two
NextScan ==
    \/ query_scan_devices
    \/ connect

SpecScan == InitLink /\ [][NextScan]_vars

\* ================================================================ claims
\* the step in which a call of op returns
Returns(op) == last'.seq # last.seq /\ last'.op = op

\* the call that returned last reached the controller
Ready == connected /\ axis # 0
WithinLimits(p) == min_pos <= p /\ p <= max_pos

\* C1: move_to(t) on a connected and homed stage passes exactly the target
\* clamped into [min_mm, max_mm] to the controller's absolute move: min_mm
\* for a target below, max_mm for a target above, t itself in between, and
\* never a value outside the limits.
C1_MoveToSendsClamped ==
    (last.op = "move_to" /\ Ready /\ is_homed) =>
        /\ Len(last.sent) = 1
        /\ last.sent[1].cmd = "move_absolute"
        /\ last.sent[1].val = (IF last.arg < min_pos THEN min_pos
                               ELSE IF last.arg > max_pos THEN max_pos
                               ELSE last.arg)
        /\ WithinLimits(last.sent[1].val)

C1_Witness ==
    /\ last.op = "move_to" /\ Ready /\ is_homed /\ last.ret
    /\ last.arg > max_pos
    /\ last.sent = <<Cmd("move_absolute", max_pos, TRUE)>>

\* C2: set_velocity(v) with v outside [-max_velocity, +max_velocity], on a
\* connected and homed stage whose cached position is strictly inside the
\* limits, sends exactly the clamped velocity (+max_velocity or
\* -max_velocity), never v itself.
C2_SetVelocitySendsClamped ==
    [][(/\ Returns("set_velocity") /\ Ready /\ is_homed
        /\ min_pos < current_position /\ current_position < max_pos
        /\ (last'.arg > max_velocity \/ last'.arg < 0 - max_velocity))
       => /\ Len(last'.sent) = 1
          /\ last'.sent[1].cmd = "move_velocity"
          /\ last'.sent[1].val = (IF last'.arg > 0 THEN max_velocity
                                  ELSE 0 - max_velocity)
          /\ last'.sent[1].val # last'.arg]_vars

C2_Witness ==
    /\ last.op = "set_velocity" /\ Ready /\ is_homed /\ last.ret
    /\ min_pos < current_position /\ current_position < max_pos
    /\ last.arg < 0 - max_velocity
    /\ last.sent = <<Cmd("move_velocity", 0 - max_velocity, TRUE)>>

\* C3: while is_homed() is false, set_velocity(v) and move_to(t) return
\* false and call nothing on the controller, for every v and t.
C3_NoMotionBeforeHoming ==
    (last.op \in {"set_velocity", "move_to"} /\ ~is_homed) =>
        (~last.ret /\ last.sent = <<>>)

C3_Witness ==
    /\ last.op = "set_velocity" /\ ~is_homed /\ Ready
    /\ ~last.ret /\ last.sent = <<>>

\* C4: on a connected stage stop() calls the controller's stop, homed or
\* not, and returns true exactly when the controller accepts it.
C4_StopNotGatedOnHomed ==
    (last.op = "stop" /\ Ready) =>
        /\ Len(last.sent) = 1
        /\ last.sent[1].cmd = "stop"
        /\ last.ret = last.sent[1].ok

C4_Witness ==
    /\ last.op = "stop" /\ Ready /\ ~is_homed
    /\ last.ret /\ last.sent = <<Cmd("stop", 0, TRUE)>>

\* C5: set_velocity(v) with the cached position at or beyond max_mm and
\* v > 0, or at or below min_mm and v < 0, sends velocity 0 to the
\* controller, and 0 is the cached velocity once the controller accepts it.
C5_AtLimitZeroing ==
    [][(/\ Returns("set_velocity") /\ Ready /\ is_homed
        /\ \/ current_position >= max_pos /\ last'.arg > 0
           \/ current_position <= min_pos /\ last'.arg < 0)
       => /\ Len(last'.sent) = 1
          /\ last'.sent[1].cmd = "move_velocity"
          /\ last'.sent[1].val = 0
          /\ last'.ret => current_velocity' = 0]_vars

C5_Witness ==
    /\ last.op = "set_velocity" /\ Ready /\ is_homed /\ last.ret
    /\ current_position = max_pos /\ last.arg > 0
    /\ last.sent = <<Cmd("move_velocity", 0, TRUE)>>
    /\ current_velocity = 0

\* C6: once a move_to or set_velocity command has been issued on a
\* connected, homed stage, the position that get_position()/get_status()
\* report lies within [min_mm, max_mm].
C6_ReportedPositionWithinLimits ==
    (last.op \in {"move_to", "set_velocity"} /\ last.ret) =>
        WithinLimits(current_position)

\* C7: after disconnect() has returned (here: with the transport closed),
\* and until the next call, the cached position, is_moving and velocity are
\* written no more, also when join timed out on a thread inside a device read.
C7_NoWriteAfterDisconnect ==
    [][(/\ last.op = "disconnect" /\ fg_pc = "idle" /\ last' = last
        /\ ~Alive(connection))
       => UNCHANGED <<current_position, is_moving, current_velocity>>]_vars

\* C8: connect() on a connected controller returns success, opens no
\* transport connection and leaves the connection, device and axis handles.
C8_ConnectIdempotent ==
    [][(connected /\ Returns("connect"))
       => /\ last'.ret
          /\ last'.sent = <<>>
          /\ UNCHANGED <<connection, device, axis>>]_vars

\* C9: disconnect() returns normally from every state, whether or not the
\* controller's stop and close raise: the stop event is set, stop was called
\* on a bound axis and close on a bound connection, is_connected() is false.
C9_DisconnectNeverFails ==
    (last.op = "disconnect") =>
        /\ last.ret
        /\ ~connected
        /\ stop_reading
        /\ axis # 0 => \E i \in 1..Len(last.sent) : last.sent[i].cmd = "stop"
        /\ connection # 0 =>
             \E i \in 1..Len(last.sent) : last.sent[i].cmd = "close"

C9_Witness ==
    /\ last.op = "disconnect" /\ ~connected
    /\ last.sent = <<Cmd("stop", 0, FALSE), Cmd("close", 0, FALSE)>>

\* C10: home() on a connected stage: when the controller accepts the homing
\* command is_homed becomes true and home() returns true; when it rejects
\* the command home() returns false and is_homed keeps its value.
C10_HomeOutcome ==
    [][(Returns("home") /\ Ready)
       => /\ Len(last'.sent) = 1
          /\ last'.sent[1].cmd = "home"
          /\ last'.sent[1].ok => (last'.ret /\ is_homed')
          /\ ~last'.sent[1].ok => (~last'.ret /\ is_homed' = is_homed)]_vars

C10_Witness ==
    /\ last.op = "home" /\ Ready /\ ~last.ret /\ ~is_homed
    /\ last.sent = <<Cmd("home", 0, FALSE)>>

\* C11: while the controller is not connected (never connected, or after
\* disconnect, when the axis handle of the session is still bound), home(),
\* stop(), move_to(t) and set_velocity(v) return false and call nothing on
\* the controller.
C11_NotConnectedRejects ==
    (last.op \in {"home", "stop", "move_to", "set_velocity"} /\ ~connected) =>
        (~last.ret /\ last.sent = <<>>)

C11_Witness ==
    /\ last.op = "stop" /\ ~connected /\ axis # 0 /\ Alive(axis)
    /\ ~last.ret /\ last.sent = <<>>

\* C12: when stop() returns true the cached velocity is 0, and in every
\* interleaving with the reading thread it stays 0 until a set_velocity call
\* succeeds: no other step, of either thread, makes a zero cached velocity
\* non-zero.
C12_StopZeroesVelocity ==
    [][/\ (Returns("stop") /\ last'.ret) => current_velocity' = 0
       /\ (current_velocity = 0 /\ current_velocity' # 0)
             => (Returns("set_velocity") /\ last'.ret)]_vars

\* stop() has returned true while the reading thread holds an is_busy answer
\* from before the stop, which it is about to write
C12_Witness ==
    /\ last.op = "stop" /\ last.ret /\ current_velocity = 0
    /\ rt_pc = "wait_busy" /\ rt_ok /\ rt_is_moving /\ devMode = "idle"

\* C13: a home, move_to, set_velocity or stop call that the controller
\* rejects returns false and leaves the cached position, velocity, is_moving,
\* is_homed and the connected flag as they were before the call; no call
\* sends its command more than once.
C13_RejectedCallLeavesCache ==
    [][\A op \in {"home", "move_to", "set_velocity", "stop"} :
         Returns(op) =>
           /\ Len(last'.sent) <= 1
           /\ (Len(last'.sent) = 1 /\ ~last'.sent[1].ok) =>
                 (~last'.ret /\ UNCHANGED stvars)]_vars

\* a velocity that differs from the cached one was rejected
C13_Witness ==
    /\ last.op = "set_velocity" /\ ~last.ret /\ Len(last.sent) = 1
    /\ ~last.sent[1].ok /\ last.sent[1].val # current_velocity
    /\ Ready /\ is_homed

\* C14: for every target t, once move_to(t) has been accepted on a connected
\* and homed stage, whose device moves to the commanded position and whose
\* reading thread keeps running, the cached position eventually lies within
\* [min_mm, max_mm] and stays there.
C14_MoveToSettlesWithinLimits ==
    [](\A t \in Targets :
         (last.op = "move_to" /\ last.arg = t /\ last.ret)
            => <>[]WithinLimits(current_position))

\* a target above the limits was accepted, the device has come to rest on
\* max_mm and the cache holds max_mm
C14_Witness ==
    /\ last.op = "move_to" /\ last.arg > max_pos /\ last.ret
    /\ devMode = "idle" /\ devPos = max_pos /\ current_position = max_pos
    /\ rt_pc = "check"

\* the step in which the reading thread writes the pair of one poll cycle
PollWrite ==
    /\ rt_pc = "wait_busy" /\ rt_ok
    /\ current_position' = rt_position
    /\ is_moving' = rt_is_moving

\* C15: a get_status() snapshot holds the cached position and is_moving of
\* one instant, and the cached pair is only ever written as a pair, by one
\* poll cycle of the reading thread; the position alone is set by connect().
\* So no snapshot joins the position of one cycle to the is_moving of another.
C15_SnapshotConsistent ==
    [][/\ Returns("get_status") =>
            /\ last'.out.position = current_position
            /\ last'.out.is_moving = is_moving
            /\ UNCHANGED <<current_position, is_moving>>
       /\ is_moving' # is_moving => PollWrite
       /\ current_position' # current_position =>
            (PollWrite \/ Returns("connect"))]_vars

\* a snapshot taken of a moving stage while the reading thread is about to
\* write the pair of its next cycle
C15_Witness ==
    /\ last.op = "get_status" /\ last.out.is_moving
    /\ last.out.position = current_position
    /\ rt_pc = "wait_busy" /\ rt_ok /\ rt_position # current_position

\* what each query returns when it is answered from the cache alone
CachedAnswer(q) ==
    CASE q = "get_position" -> [NoStatus EXCEPT !.position = current_position]
      [] q = "get_distance_from_home" ->
            [NoStatus EXCEPT !.position = IF current_position < 0
                                          THEN 0 - current_position
                                          ELSE current_position]
      [] q = "get_status" ->
            [NoStatus EXCEPT !.position = current_position,
                             !.velocity = current_velocity,
                             !.is_moving = is_moving, !.is_homed = is_homed]
      [] q = "is_connected" -> [NoStatus EXCEPT !.connected = connected]
      [] q = "is_homed" -> [NoStatus EXCEPT !.is_homed = is_homed]
      [] q = "is_moving" -> [NoStatus EXCEPT !.is_moving = is_moving]

\* C20: get_position(), get_status(), is_connected(), is_homed(), is_moving()
\* and get_distance_from_home() call nothing on the controller and change no
\* state of the controller or the device; what they return is a function of
\* the cache alone, so a query repeated with no poll cycle or command in
\* between returns the same values.
C20_QueriesArePure ==
    [][\A q \in {"get_position", "get_distance_from_home", "get_status",
                 "is_connected", "is_homed", "is_moving"} :
         Returns(q) =>
           /\ last'.sent = <<>>
           /\ UNCHANGED <<cfgvars, hvars, stvars, rtvars, fg_pc, devvars>>
           /\ last'.out = CachedAnswer(q)
           /\ (last.op = q /\ last.out = CachedAnswer(q))
                 => last'.out = last.out]_vars

\* get_position() has answered from the cache while the device, connected
\* and answering, is somewhere else
C20_Witness ==
    /\ last.op = "get_position" /\ last.out.position = current_position
    /\ connected /\ Alive(axis) /\ devPos # current_position

\* the configurations a controller can hold in SpecConfig
RoundTripConfigs ==
    [port : {"auto", "none"} \cup Ports,
     limits : {<<MinPos, MaxPos>>, <<MinPos + 1, MaxPos + 1>>, DefaultLimits},
     max_velocity : {MaxVel, MaxVel + 1, DefaultMaxVelocity},
     reading_interval : {IntervalOfRate(DefaultRate \div 2),
                         IntervalOfRate(DefaultRate),
                         Recip(Hz(2 * DefaultRate))},
     device_info : {"none"} \cup Ports]

\* C16: when the file holds what save_config writes for a controller with
\* the configuration x, load_config into a fresh controller (one without a
\* device identity) succeeds and leaves the controller with x's endpoint,
\* limits, max velocity, reading period (hence rate) and device identity.
C16_SaveLoadRoundTrip ==
    [][(/\ Returns("load_config")
        /\ device_info = "none"
        /\ config_file.has = Keys)
       => \A x \in RoundTripConfigs :
            (config_file = ConfigRecord(x.port, x.limits[1], x.limits[2],
                                        x.max_velocity, x.reading_interval,
                                        x.device_info))
            => /\ last'.ret
               /\ port' = x.port
               /\ <<min_pos', max_pos'>> = x.limits
               /\ max_velocity' = x.max_velocity
               /\ reading_interval' = x.reading_interval
               /\ device_info' = x.device_info]_vars

\* load_config has returned true on the file that save_config writes for
\* the configuration now held, with an identity and a rate above the ceiling
C16_Witness ==
    /\ last.op = "load_config" /\ last.ret
    /\ config_file = SavedConfig(port, device_info)
    /\ device_info # "none"
    /\ reading_interval = Recip(Hz(2 * DefaultRate))

\* C17: load_config with no file at the path returns false and leaves the
\* endpoint, the limits, the max velocity, the polling period and the
\* device identity as they were.
C17_LoadMissingFile ==
    [][(Returns("load_config") /\ ~config_file.exists)
       => /\ ~last'.ret
          /\ UNCHANGED <<port, min_pos, max_pos, max_velocity,
                         reading_interval, device_info>>]_vars

\* a controller constructed on an explicit endpoint, with limits other than
\* the defaults of load_config, has been asked to load a missing file
C17_Witness ==
    /\ last.op = "load_config" /\ ~last.ret /\ ~config_file.exists
    /\ port \in Ports /\ <<min_pos, max_pos>> # DefaultLimits

\* the record's settings other than the identity can be applied: a rate, when
\* present, is not zero
SettingsLoadable(rec) ==
    rec.exists /\ ("reading_rate_hz" \in rec.has => rec.reading_rate_hz[1] # 0)

\* the record holds an identity that lacks one of its fields
PartialIdentity(rec) ==
    /\ "device_info" \in rec.has
    /\ rec.device_info.fields # {}
    /\ ~(Fields \subseteq rec.device_info.fields)

\* C18: when the record holds a device identity that lacks one of its
\* fields, load_config still succeeds and the controller ends with no device
\* identity.
C18_PartialIdentityIsAbsent ==
    [][(/\ Returns("load_config")
        /\ SettingsLoadable(config_file)
        /\ PartialIdentity(config_file))
       => (last'.ret /\ device_info' = "none")]_vars

\* C19: load_config of a record whose present fields are well formed succeeds;
\* each of endpoint, limits, max velocity and reading rate that the record
\* lacks becomes "auto", [0, 100], 10.0 and 100.0 (a period of 1/100 s), and
\* each that the record holds takes the record's value.
C19_MissingFieldsDefault ==
    [][(/\ Returns("load_config")
        /\ SettingsLoadable(config_file)
        /\ ~PartialIdentity(config_file))
       => /\ last'.ret
          /\ port' = (IF "port" \in config_file.has THEN config_file.port
                      ELSE "auto")
          /\ <<min_pos', max_pos'>> =
                (IF "position_limits_mm" \in config_file.has
                 THEN config_file.position_limits_mm ELSE <<0, 100>>)
          /\ max_velocity' = (IF "max_velocity_mm_s" \in config_file.has
                              THEN config_file.max_velocity_mm_s ELSE 10)
          /\ reading_interval' =
                (IF "reading_rate_hz" \in config_file.has
                 THEN <<config_file.reading_rate_hz[2],
                        config_file.reading_rate_hz[1]>>
                 ELSE <<1, 100>>)]_vars

\* a record holding the max velocity alone was loaded into a controller
\* constructed with other limits: the rest is at the defaults
C19_Witness ==
    /\ last.op = "load_config" /\ last.ret
    /\ config_file.exists /\ config_file.has = {"max_velocity_mm_s"}
    /\ port = "auto" /\ <<min_pos, max_pos>> = <<0, 100>>
    /\ max_velocity = config_file.max_velocity_mm_s
    /\ reading_interval = <<1, 100>>

\* C21: connect() in auto mode, when neither the scan nor the search that
\* follows it finds a device on any endpoint, returns false, leaves
\* is_connected() false and starts no reading thread.
C21_AutoConnectFindsNothing ==
    [][(/\ Returns("connect")
        /\ port = "auto"
        /\ Len(last'.sent) >= 2
        /\ last'.sent[1] = Cmd("scan_devices", 0, FALSE)
        /\ last'.sent[2] = Cmd("_find_zaber_port", 0, FALSE))
       => /\ ~last'.ret
          /\ ~connected /\ ~connected'
          /\ rt_pc' = rt_pc /\ rt_pc' \in {"none", "done"}]_vars

C21_Witness ==
    /\ last.op = "connect" /\ ~last.ret
    /\ last.sent = <<Cmd("scan_devices", 0, FALSE),
                     Cmd("_find_zaber_port", 0, FALSE)>>
    /\ ~connected /\ rt_pc = "none"

\* C22: get_distance_from_home() returns the cached position without its
\* sign: a value that is never negative.
C22_DistanceIsAbsolute ==
    [][Returns("get_distance_from_home")
       => /\ last'.out.position >= 0
          /\ last'.out.position \in {current_position, 0 - current_position}]_vars

\* the distance of a stage cached below its zero
C22_Witness ==
    /\ last.op = "get_distance_from_home"
    /\ current_position < 0
    /\ last.out.position = 0 - current_position

\* C23: whenever the controller is connected and no call is in progress, its
\* reading thread is alive (the controller holds one thread reference, so
\* there are never two live threads; the claim is that there is never none),
\* also after a disconnect() whose join timed out and a new connect().
C23_OnePollerWhileConnected ==
    (connected /\ fg_pc = "idle") => ThreadAlive

\* C24: a poll cycle whose position read or busy read raises changes no
\* cached field and no call record, and the thread goes on to its next loop
\* test; the thread ends only at a loop test that finds the stop event set,
\* so no read failure, single or repeated, ends it.
C24_FailedPollKeepsCache ==
    [][/\ (rt_pc \in {"wait_pos", "wait_busy"} /\ ~rt_ok /\ rt_pc' # rt_pc)
          => (UNCHANGED stvars /\ rt_pc' = "check" /\ last' = last)
       /\ (rt_pc' = "done" /\ rt_pc # "done")
          => (rt_pc = "check" /\ stop_reading)]_vars

\* the busy read has raised after a position read that differs from the cache
C24_Witness ==
    /\ rt_pc = "wait_busy" /\ ~rt_ok /\ rt_position # current_position
    /\ connected /\ ~stop_reading

\* C27: once the stop event is set the reading thread starts no further
\* cycle (no loop test leads to a device read), the thread in the end exits
\* when its device reads return, and the stop event is set by no step other
\* than the first step of disconnect().
C27_CooperativeStop ==
    /\ [][/\ (stop_reading /\ rt_pc = "check") => rt_pc' \in {"check", "done"}
          /\ (stop_reading' /\ ~stop_reading)
             => (fg_pc = "idle" /\ fg_pc' = "join")]_vars
    /\ (stop_reading /\ ThreadAlive) ~> ~ThreadAlive

\* disconnect() has set the stop event while the thread is inside a cycle
C27_Witness ==
    /\ stop_reading /\ fg_pc = "join"
    /\ rt_pc \in {"wait_pos", "wait_busy"}

\* C28: in every reachable state the polling period is at least 1/MaxRate
\* seconds (10 ms), after construction and after every load_config.
C28_PeriodAtLeastTenMs ==
    MaxRate * reading_interval[1] >= reading_interval[2]

\* C29: a connect() call that changes the configuration file returns success
\* and started without a known device identity; a connect() that returns
\* failure leaves the file as it was.
C29_SavedOnlyOnFirstSuccess ==
    [][(Returns("connect") /\ config_file' # config_file)
       => (last'.ret /\ device_info = "none")]_vars

\* the identities a scan must return according to the calls it made: for
\* every detection that answered, one identity of the endpoint opened just
\* before it for each device listed
RECURSIVE DetectedIn(_, _)
DetectedIn(log, j) ==
    IF j > Len(log) THEN <<>>
    ELSE IF log[j].cmd = "detect_devices" /\ log[j].ok
    THEN [k \in 1..log[j].val |-> PortList[log[j - 1].val]]
         \o DetectedIn(log, j + 1)
    ELSE DetectedIn(log, j + 1)

\* C30: scan_devices() always returns; every candidate endpoint is opened,
\* whatever happened on the endpoints before it, and the list returned holds
\* exactly one identity for each device listed by the endpoints that answered.
C30_ScanSkipsFailures ==
    [][Returns("scan_devices")
       => /\ last'.ret
          /\ \A i \in 1..Len(PortList) :
               \E j \in 1..Len(last'.sent) :
                 last'.sent[j].cmd = "open_serial_port" /\ last'.sent[j].val = i
          /\ last'.out.devices = DetectedIn(last'.sent, 1)]_vars

\* a scan whose first endpoint raised and whose later endpoint listed two
\* devices
C30_Witness ==
    /\ last.op = "scan_devices"
    /\ \E j \in 1..Len(last.sent) : j <= 2 /\ ~last.sent[j].ok
    /\ Len(last.out.devices) = 2

\* C25: every query that returns a cached status field (position, velocity,
\* is_moving, is_homed) returns it from inside the critical section of the
\* status lock, and the reading thread writes the cache only there.
C25_LockDiscipline ==
    [][/\ \A q \in LockedQueries \cup {"is_homed"} :
            Returns(q) => lock = "caller"
       /\ (rt_pc \in {"wait_busy", "locked"} /\ rt_pc' = "check"
           /\ stvars' # stvars) => lock = "reader"]_vars

\* C26: a thread that holds the status lock is not inside a controller
\* call: the reading thread holds it only after both of its reads have
\* returned and before its sleep, the calling thread only inside a query's
\* critical section, and no call that reaches the controller is made by a
\* caller holding the lock.
C26_NoDeviceCallUnderLock ==
    /\ [](/\ lock = "reader" => rt_pc = "locked"
          /\ lock = "caller" => fg_pc \in LockedQueries)
    /\ [][(last'.seq # last.seq /\ last'.sent # <<>>)
          => (lock # "caller" /\ lock' # "caller")]_vars

\* a query holds the lock while the reading thread waits for the device
C26_Witness ==
    /\ lock = "caller"
    /\ rt_pc \in {"wait_pos", "wait_busy"}

\* C31: get_status() called after a set_velocity() that succeeded with a
\* nonzero effective velocity, with no other call in between and the device
\* still moving at that velocity, reports that effective velocity, whatever
\* the reading thread did in the meantime.
C31_VelocityReportedWhileBusy ==
    [][(/\ Returns("get_status")
        /\ last.op = "set_velocity" /\ last.ret
        /\ last.sent # <<>> /\ last.sent[1].val # 0
        /\ devMode = "vel")
       => last'.out.velocity = last.sent[1].val]_vars

\* a step of the reading thread: its position in the loop changes and no
\* call of the calling thread returns
PollStep == rt_pc' # rt_pc /\ last' = last

\* C32: a step of the reading thread leaves is_homed, the connected flag and
\* every configuration value alone and changes the cached velocity to zero
\* only; home, move_to, set_velocity and stop leave the cached position and
\* is_moving alone, which change in connect() and in poll cycles only.
C32_WritersOfTheCache ==
    [][/\ PollStep
          => /\ UNCHANGED <<is_homed, connected, cfgvars>>
             /\ current_velocity' \in {current_velocity, 0}
       /\ \A op \in {"home", "move_to", "set_velocity", "stop"} :
            Returns(op) => UNCHANGED <<current_position, is_moving>>
       /\ (current_position' # current_position \/ is_moving' # is_moving)
          => (PollStep \/ Returns("connect"))]_vars

\* stop() has returned success and the cache still says moving, at a position
\* that the reading thread wrote
C32_Witness ==
    /\ last.op = "stop" /\ last.ret
    /\ is_moving /\ current_position # 0 /\ is_homed

\* C33: a load_config() that returns failure leaves the endpoint, the
\* position limits, the maximum velocity, the polling period and the device
\* identity as they were before the call.
C33_FailedLoadChangesNothing ==
    [][(Returns("load_config") /\ ~last'.ret)
       => UNCHANGED <<port, min_pos, max_pos, max_velocity, reading_interval,
                      device_info>>]_vars

\* C34: a connect() that returns failure leaves the configured endpoint as
\* it was before the call and leaves no transport connection open that was
\* not open before.
C34_FailedConnectLeavesNoTrace ==
    [][(Returns("connect") /\ ~last'.ret)
       => (port' = port /\ open_conns' = open_conns)]_vars

\* C35: every connection that scan_devices() opens is closed again before
\* the next endpoint is opened or the call returns, whatever the detection
\* on that endpoint did.
C35_ScanClosesWhatItOpens ==
    [][Returns("scan_devices")
       => \A j \in 1..Len(last'.sent) :
            (last'.sent[j].cmd = "open_serial_port" /\ last'.sent[j].ok)
            => \E k \in (j + 1)..Len(last'.sent) :
                 /\ last'.sent[k].cmd = "close"
                 /\ last'.sent[k].val = last'.sent[j].val
                 /\ \A m \in (j + 1)..(k - 1) :
                      last'.sent[m].cmd # "open_serial_port"]_vars

====
